---------------------------- MODULE Spec2Model ----------------------------
(***************************************************************************)
(* Response parsing and citation annotation of openai-search-tools.        *)
(*                                                                         *)
(* The model covers the pure functions that the command line tools and     *)
(* the dashboards share:                                                   *)
(*   get_output_text / get_citations     (file_search.py, and the          *)
(*       textually identical copies in streamlit_file_search.py)           *)
(*   get_output_text                     (search.py, no exception handler) *)
(*   get_citations                       (streamlit_search.py, web only)   *)
(*   format_text_with_citations          (streamlit_file_search.py and     *)
(*                                        streamlit_search.py)             *)
(*                                                                         *)
(* Python values are modelled as follows.                                  *)
(*   - A node (response, output item, content item, annotation) is a       *)
(*     record of its fields.  A field that the node does not have holds    *)
(*     Missing; Python's None is NoneVal.                                  *)
(*   - A field that should hold a list is a tagged record: FMissing (no    *)
(*     such attribute / key), FNonIter (present, but None: iterating it    *)
(*     raises TypeError) or FSeq(s).                                       *)
(*   - An optional integer is <<>> (None) or <<n>>; an integer field that  *)
(*     the node does not have is MissingInt.                               *)
(*   - response.repr tells how the nodes below the top level expose their  *)
(*     fields: "attr" (SDK objects, item.type) or "key" (dicts,            *)
(*     item.get('type')).  Reading an attribute of a dict, or calling      *)
(*     .get on an object without that method, raises AttributeError.       *)
(*   - A text is a sequence of one-character strings when it is spliced    *)
(*     (format_text_with_citations) and an opaque string otherwise.        *)
(***************************************************************************)
EXTENDS Integers, Sequences, FiniteSets, TLC

VARIABLES
    pc,              \* the operation that has run ("start" before any)
    response,        \* the payload handed to the parser
    output_text,     \* outcome of get_output_text: [raised, value]
    citations,       \* outcome of get_citations: [raised, value]
    text,            \* the text handed to format_text_with_citations
    cites,           \* the citation list handed to format_text_with_citations
    formatted_text,  \* outcome of format_text_with_citations
    formatted_again, \* outcome of a second format_text_with_citations call
    displayed,       \* what search.py display_search_results has printed
    search_type,     \* interactive_mode: "file", "web" or "combined"
    context_size,    \* interactive_mode: "low", "medium" or "high"
    vector_store_id, \* interactive_mode: the vector store searched
    location,        \* interactive_mode: <<>> for None, or <<dict>>
    handled,         \* interactive_mode: the input handled last and its effect
    prompts,         \* interactive_mode: inputs handled so far
    dashboard,       \* the Streamlit script a browser session runs
    search_history,  \* st.session_state.search_history
    rerun,           \* what the last rerun of the script was given and did
    reruns           \* reruns of the script so far

parser_vars == <<response, output_text, citations>>
annotator_vars == <<text, cites, formatted_text, formatted_again>>

display_vars == <<displayed>>
session_vars ==
    <<search_type, context_size, vector_store_id, location, handled, prompts>>
dashboard_vars == <<dashboard, search_history, rerun, reruns>>

batch_vars == <<parser_vars, annotator_vars, display_vars>>
interactive_vars == <<session_vars, dashboard_vars>>

vars == <<pc, batch_vars, interactive_vars>>

-----------------------------------------------------------------------------
(* Bounds of the model *)

MaxItems == 2        \* output items in a response
MaxContent == 2      \* content items in a response, all message items together
MaxAnn == 4          \* annotations of one content item
MaxTextLen == 4      \* characters of a text that is annotated
MaxCites == 2        \* citations handed to one format_text_with_citations call
MaxPrompts == 3      \* inputs given to one interactive session
MaxReruns == 3       \* reruns of the dashboard script in one browser session

-----------------------------------------------------------------------------
(* Python values *)

Missing == "<missing>"
NoneVal == "None"
NoneInt == <<>>
MissingInt == <<0, 0>>

FMissing == [tag |-> "missing", val |-> <<>>]
FNonIter == [tag |-> "noniter", val |-> <<>>]
FSeq(s) == [tag |-> "seq", val |-> s]

SeqsUpTo(S, n) == UNION {[1..k -> S] : k \in 0..n}

\* hasattr(node, field) for a field holding a list
hasattr(f) == f.tag # "missing"

\* Outcomes of a scan: return a value, raise, or fall through to the next statement
Return(v) == [out |-> "return", val |-> v]
Raise == [out |-> "raise", val |-> NoneVal]
Continue == [out |-> "continue", val |-> NoneVal]

-----------------------------------------------------------------------------
(* json.loads: a decodable string yields a dict or a list whose nodes are    *)
(* dicts (never an object with attributes); an undecodable one raises        *)
(* json.JSONDecodeError.                                                     *)

json_loads(s) ==
    IF s.json = "garbage"
    THEN [raised |-> TRUE, value |-> s]
    ELSE [raised |-> FALSE,
          value |-> [kind |-> IF s.json = "mapping" THEN "dict" ELSE "list",
                     repr |-> "key",
                     json |-> "n/a",
                     output |-> s.output,
                     output_text |-> Missing]]

\* lines 186-195: response_data after the isinstance chain
response_data_of(resp) ==
    IF resp.kind = "str" THEN json_loads(resp) ELSE [raised |-> FALSE, value |-> resp]

-----------------------------------------------------------------------------
(* get_output_text, file_search.py 174-217 *)

RECURSIVE output_text_content_attr(_, _, _)
output_text_content_attr(repr, content, j) ==
    IF j > Len(content) THEN Continue
    ELSE LET content_item == content[j] IN
         IF repr # "attr" \/ content_item.type = Missing THEN Raise
         ELSE IF content_item.type = "output_text"
              THEN IF content_item.text = Missing THEN Raise
                   ELSE Return(content_item.text)
              ELSE output_text_content_attr(repr, content, j + 1)

\* (variant that gives up after the first message item with content)
RECURSIVE output_text_first_message_only(_, _, _)
output_text_first_message_only(repr, output, i) ==
    IF i > Len(output) THEN Continue
    ELSE LET item == output[i] IN
         IF repr # "attr" \/ item.type = Missing THEN Raise
         ELSE IF item.type = "message" /\ hasattr(item.content)
              THEN IF item.content.tag = "noniter" THEN Raise
                   ELSE LET r == output_text_content_attr(repr, item.content.val, 1) IN
                        IF r.out = "continue" THEN Return(NoneVal) ELSE r
              ELSE output_text_first_message_only(repr, output, i + 1)

RECURSIVE output_text_items_attr(_, _, _)
output_text_items_attr(repr, output, i) ==
    IF i > Len(output) THEN Continue
    ELSE LET item == output[i] IN
         IF repr # "attr" \/ item.type = Missing THEN Raise
         ELSE IF item.type = "message" /\ hasattr(item.content)
              THEN IF item.content.tag = "noniter" THEN Raise
                   ELSE LET r == output_text_content_attr(repr, item.content.val, 1) IN
                        IF r.out = "continue"
                        THEN output_text_items_attr(repr, output, i + 1)
                        ELSE r
              ELSE output_text_items_attr(repr, output, i + 1)

RECURSIVE output_text_content_key(_, _, _)
output_text_content_key(repr, content, j) ==
    IF j > Len(content) THEN Continue
    ELSE LET content_item == content[j] IN
         IF repr # "key" THEN Raise
         ELSE IF content_item.type = "output_text"
              THEN Return(IF content_item.text = Missing THEN NoneVal
                          ELSE content_item.text)
              ELSE output_text_content_key(repr, content, j + 1)

RECURSIVE output_text_items_key(_, _, _)
output_text_items_key(repr, output, i) ==
    IF i > Len(output) THEN Continue
    ELSE LET item == output[i] IN
         IF repr # "key" THEN Raise
         ELSE IF item.type = "message" /\ hasattr(item.content)
              THEN IF item.content.tag = "noniter" THEN Raise
                   ELSE LET r == output_text_content_key(repr, item.content.val, 1) IN
                        IF r.out = "continue"
                        THEN output_text_items_key(repr, output, i + 1)
                        ELSE r
              ELSE output_text_items_key(repr, output, i + 1)

\* lines 198-203: only an object with attributes has an attribute 'output'
output_text_attr_path(response_data) ==
    IF response_data.kind = "obj" /\ hasattr(response_data.output)
    THEN IF response_data.output.tag = "noniter" THEN Raise
         ELSE output_text_items_attr(response_data.repr, response_data.output.val, 1)
    ELSE Continue

\* lines 206-211
output_text_list_path(response_data) ==
    IF response_data.kind = "list"
    THEN output_text_items_key(response_data.repr, response_data.output.val, 1)
    ELSE Continue

\* lines 197-213: the body of the try block after normalisation
output_text_try_body(response_data) ==
    LET a == output_text_attr_path(response_data) IN
    IF a.out # "continue" THEN a
    ELSE LET l == output_text_list_path(response_data) IN
         IF l.out # "continue" THEN l ELSE Return(NoneVal)

\* lines 214-217: except Exception: return None
output_text_except_reraises(r) == [raised |-> r.out = "raise", value |-> r.val]
output_text_except(r) ==
    IF r.out = "raise" THEN [raised |-> FALSE, value |-> NoneVal]
    ELSE [raised |-> FALSE, value |-> r.val]

\* lines 187-190: except json.JSONDecodeError: return None
output_text_decode_error(resp) == [raised |-> FALSE, value |-> NoneVal]

get_output_text(resp) ==
    LET d == response_data_of(resp) IN
    IF d.raised THEN output_text_decode_error(resp)
    ELSE output_text_except(output_text_try_body(d.value))

-----------------------------------------------------------------------------
(* get_output_text, search.py 77-99: no try block, and the SDK's            *)
(* output_text property is returned when the response has it                *)

search_get_output_text(resp) ==
    IF resp.kind = "obj" /\ resp.output_text # Missing
    THEN [raised |-> FALSE, value |-> resp.output_text]
    ELSE LET r == output_text_attr_path(resp) IN
         IF r.out = "raise" THEN [raised |-> TRUE, value |-> NoneVal]
         ELSE [raised |-> FALSE, value |-> r.val]

-----------------------------------------------------------------------------
(* get_citations, file_search.py 220-289 *)

CitationTypes == {"url_citation", "file_citation"}

\* line 254 (and 274): "number": idx + 1, idx the 0-based position that
\* enumerate() gives the annotation in its own annotation list
citation_number_renumbered(idx, acc) == Len(acc) + 1
citation_number(idx, acc) == idx + 1

\* line 256: getattr(annotation, 'title', "No title") / line 276
title_default_none(annotation) ==
    IF annotation.title = Missing THEN NoneVal ELSE annotation.title
title_of(annotation) ==
    IF annotation.title = Missing THEN "No title" ELSE annotation.title

\* getattr(annotation, name, None) / annotation.get(name, None)
getattr_none(v) == IF v = Missing THEN NoneVal ELSE v
getattr_none_int(v) == IF v = MissingInt THEN NoneInt ELSE v

\* lines 253-262 and 273-282: the citation dictionary
make_citation(idx, annotation, acc) ==
    [number |-> citation_number(idx, acc),
     type |-> annotation.type,
     title |-> title_of(annotation),
     url |-> getattr_none(annotation.url),
     file_id |-> getattr_none(annotation.file_id),
     quote |-> getattr_none(annotation.quote),
     start_index |-> getattr_none_int(annotation.start_index),
     end_index |-> getattr_none_int(annotation.end_index)]

\* lines 251-263: for idx, annotation in enumerate(content_item.annotations)
RECURSIVE citations_annotations_attr(_, _, _, _)
citations_annotations_attr(repr, annotations, idx, acc) ==
    IF idx >= Len(annotations) THEN [raised |-> FALSE, acc |-> acc]
    ELSE LET annotation == annotations[idx + 1] IN
         IF repr # "attr" \/ annotation.type = Missing
         THEN [raised |-> TRUE, acc |-> acc]
         ELSE IF annotation.type = "url_citation" \/ annotation.type = "file_citation"
              THEN citations_annotations_attr(repr, annotations, idx + 1,
                       Append(acc, make_citation(idx, annotation, acc)))
              ELSE citations_annotations_attr(repr, annotations, idx + 1, acc)

\* lines 249-263: for content_item in item.content
RECURSIVE citations_content_attr(_, _, _, _)
citations_content_attr(repr, content, j, acc) ==
    IF j > Len(content) THEN [raised |-> FALSE, acc |-> acc]
    ELSE LET content_item == content[j] IN
         IF repr # "attr" \/ content_item.type = Missing
         THEN [raised |-> TRUE, acc |-> acc]
         ELSE IF content_item.type = "output_text" /\ hasattr(content_item.annotations)
              THEN IF content_item.annotations.tag = "noniter"
                   THEN [raised |-> TRUE, acc |-> acc]
                   ELSE LET r == citations_annotations_attr(
                                     repr, content_item.annotations.val, 0, acc) IN
                        IF r.raised THEN r
                        ELSE citations_content_attr(repr, content, j + 1, r.acc)
              ELSE citations_content_attr(repr, content, j + 1, acc)

\* lines 247-263: for item in response_data.output
RECURSIVE citations_items_attr(_, _, _, _)
citations_items_attr(repr, output, i, acc) ==
    IF i > Len(output) THEN [raised |-> FALSE, acc |-> acc]
    ELSE LET item == output[i] IN
         IF repr # "attr" \/ item.type = Missing
         THEN [raised |-> TRUE, acc |-> acc]
         ELSE IF item.type = "message" /\ hasattr(item.content)
              THEN IF item.content.tag = "noniter"
                   THEN [raised |-> TRUE, acc |-> acc]
                   ELSE LET r == citations_content_attr(repr, item.content.val, 1, acc) IN
                        IF r.raised THEN r
                        ELSE citations_items_attr(repr, output, i + 1, r.acc)
              ELSE citations_items_attr(repr, output, i + 1, acc)

\* lines 271-283: for idx, annotation in enumerate(content_item['annotations'])
RECURSIVE citations_annotations_key(_, _, _, _)
citations_annotations_key(repr, annotations, idx, acc) ==
    IF idx >= Len(annotations) THEN [raised |-> FALSE, acc |-> acc]
    ELSE LET annotation == annotations[idx + 1] IN
         IF repr # "key" THEN [raised |-> TRUE, acc |-> acc]
         ELSE IF annotation.type \in CitationTypes
              THEN citations_annotations_key(repr, annotations, idx + 1,
                       Append(acc, make_citation(idx, annotation, acc)))
              ELSE citations_annotations_key(repr, annotations, idx + 1, acc)

\* lines 269-283: for content_item in item['content']
RECURSIVE citations_content_key(_, _, _, _)
citations_content_key(repr, content, j, acc) ==
    IF j > Len(content) THEN [raised |-> FALSE, acc |-> acc]
    ELSE LET content_item == content[j] IN
         IF repr # "key" THEN [raised |-> TRUE, acc |-> acc]
         ELSE IF content_item.type = "output_text" /\ hasattr(content_item.annotations)
              THEN IF content_item.annotations.tag = "noniter"
                   THEN [raised |-> TRUE, acc |-> acc]
                   ELSE LET r == citations_annotations_key(
                                     repr, content_item.annotations.val, 0, acc) IN
                        IF r.raised THEN r
                        ELSE citations_content_key(repr, content, j + 1, r.acc)
              ELSE citations_content_key(repr, content, j + 1, acc)

\* lines 267-283: for item in response_data
RECURSIVE citations_items_key(_, _, _, _)
citations_items_key(repr, output, i, acc) ==
    IF i > Len(output) THEN [raised |-> FALSE, acc |-> acc]
    ELSE LET item == output[i] IN
         IF repr # "key" THEN [raised |-> TRUE, acc |-> acc]
         ELSE IF item.type = "message" /\ hasattr(item.content)
              THEN IF item.content.tag = "noniter"
                   THEN [raised |-> TRUE, acc |-> acc]
                   ELSE LET r == citations_content_key(repr, item.content.val, 1, acc) IN
                        IF r.raised THEN r
                        ELSE citations_items_key(repr, output, i + 1, r.acc)
              ELSE citations_items_key(repr, output, i + 1, acc)

\* lines 245-285: the body of the try block after normalisation
citations_try_body(response_data) ==
    IF response_data.kind = "obj" /\ hasattr(response_data.output)
    THEN IF response_data.output.tag = "noniter"
         THEN [raised |-> TRUE, acc |-> <<>>]
         ELSE citations_items_attr(response_data.repr, response_data.output.val, 1, <<>>)
    ELSE IF response_data.kind = "list"
         THEN citations_items_key(response_data.repr, response_data.output.val, 1, <<>>)
         ELSE [raised |-> FALSE, acc |-> <<>>]

\* lines 286-289: except Exception: return citations (what was appended so far)
citations_except_empty(r) == [raised |-> FALSE, value |-> IF r.raised THEN <<>> ELSE r.acc]
citations_except(r) == [raised |-> FALSE, value |-> r.acc]

\* lines 235-238: except json.JSONDecodeError: return citations
citations_decode_error_raises(resp) == [raised |-> TRUE, value |-> <<>>]
citations_decode_error(resp) == [raised |-> FALSE, value |-> <<>>]

get_citations(resp) ==
    LET d == response_data_of(resp) IN
    IF d.raised THEN citations_decode_error(resp)
    ELSE citations_except(citations_try_body(d.value))

-----------------------------------------------------------------------------
(* get_citations, streamlit_search.py 297-357: web citations only *)

\* lines 330-336 (attribute path): annotation.url is read without a default
web_citation_attr(idx, annotation) ==
    [number |-> idx + 1,
     title |-> IF annotation.title # Missing THEN annotation.title ELSE "No title",
     url |-> annotation.url,
     start_index |-> getattr_none_int(annotation.start_index),
     end_index |-> getattr_none_int(annotation.end_index)]

\* lines 346-352 (list path): annotation.get('url', "")
web_citation_key(idx, annotation) ==
    [number |-> idx + 1,
     title |-> IF annotation.title # Missing THEN annotation.title ELSE "No title",
     url |-> IF annotation.url = Missing THEN "" ELSE annotation.url,
     start_index |-> getattr_none_int(annotation.start_index),
     end_index |-> getattr_none_int(annotation.end_index)]

RECURSIVE web_annotations(_, _, _, _, _)
web_annotations(mode, repr, annotations, idx, acc) ==
    IF idx >= Len(annotations) THEN [raised |-> FALSE, acc |-> acc]
    ELSE LET annotation == annotations[idx + 1] IN
         IF repr # mode \/ (mode = "attr" /\ annotation.type = Missing)
         THEN [raised |-> TRUE, acc |-> acc]
         ELSE IF annotation.type = "url_citation"
              THEN IF mode = "attr" /\ annotation.url = Missing
                   THEN [raised |-> TRUE, acc |-> acc]
                   ELSE web_annotations(mode, repr, annotations, idx + 1,
                            Append(acc, IF mode = "attr"
                                        THEN web_citation_attr(idx, annotation)
                                        ELSE web_citation_key(idx, annotation)))
              ELSE web_annotations(mode, repr, annotations, idx + 1, acc)

RECURSIVE web_content(_, _, _, _, _)
web_content(mode, repr, content, j, acc) ==
    IF j > Len(content) THEN [raised |-> FALSE, acc |-> acc]
    ELSE LET content_item == content[j] IN
         IF repr # mode \/ (mode = "attr" /\ content_item.type = Missing)
         THEN [raised |-> TRUE, acc |-> acc]
         ELSE IF content_item.type = "output_text" /\ hasattr(content_item.annotations)
              THEN IF content_item.annotations.tag = "noniter"
                   THEN [raised |-> TRUE, acc |-> acc]
                   ELSE LET r == web_annotations(mode, repr,
                                     content_item.annotations.val, 0, acc) IN
                        IF r.raised THEN r
                        ELSE web_content(mode, repr, content, j + 1, r.acc)
              ELSE web_content(mode, repr, content, j + 1, acc)

RECURSIVE web_items(_, _, _, _, _)
web_items(mode, repr, output, i, acc) ==
    IF i > Len(output) THEN [raised |-> FALSE, acc |-> acc]
    ELSE LET item == output[i] IN
         IF repr # mode \/ (mode = "attr" /\ item.type = Missing)
         THEN [raised |-> TRUE, acc |-> acc]
         ELSE IF item.type = "message" /\ hasattr(item.content)
              THEN IF item.content.tag = "noniter"
                   THEN [raised |-> TRUE, acc |-> acc]
                   ELSE LET r == web_content(mode, repr, item.content.val, 1, acc) IN
                        IF r.raised THEN r
                        ELSE web_items(mode, repr, output, i + 1, r.acc)
              ELSE web_items(mode, repr, output, i + 1, acc)

streamlit_search_get_citations(resp) ==
    LET d == response_data_of(resp) IN
    IF d.raised THEN [raised |-> FALSE, value |-> <<>>]
    ELSE LET r == IF d.value.kind = "obj" /\ hasattr(d.value.output)
                  THEN IF d.value.output.tag = "noniter"
                       THEN [raised |-> TRUE, acc |-> <<>>]
                       ELSE web_items("attr", d.value.repr, d.value.output.val, 1, <<>>)
                  ELSE IF d.value.kind = "list"
                       THEN web_items("key", d.value.repr, d.value.output.val, 1, <<>>)
                       ELSE [raised |-> FALSE, acc |-> <<>>]
         IN [raised |-> FALSE, value |-> r.acc]

-----------------------------------------------------------------------------
(* display_search_results, search.py 102-196: what the console shows *)

Display(panel, content, cs) == [panel |-> panel, content |-> content, citations |-> cs]

NoDisplay == Display("none", NoneVal, <<>>)

\* lines 191-196: the except branch
DisplayError == Display("Error processing results", NoneVal, <<>>)

\* lines 118-122: the loop keeps the message item it has seen last
display_message_last_seen(message, item) == <<item>>

RECURSIVE display_items(_, _, _, _)
display_items(repr, output, i, message) ==
    IF i > Len(output) THEN [raised |-> FALSE, message |-> message]
    ELSE LET item == output[i] IN
         IF repr # "attr" \/ item.type = Missing
         THEN [raised |-> TRUE, message |-> message]
         ELSE IF item.type = "message"
              THEN display_items(repr, output, i + 1,
                                 display_message_last_seen(message, item))
              ELSE display_items(repr, output, i + 1, message)

\* lines 126-127: next((c for c in message.content if c.type == "output_text"), None)
RECURSIVE display_content_item(_, _)
display_content_item(content, j) ==
    IF j > Len(content) THEN [raised |-> FALSE, found |-> <<>>]
    ELSE IF content[j].type = Missing THEN [raised |-> TRUE, found |-> <<>>]
    ELSE IF content[j].type = "output_text"
         THEN [raised |-> FALSE, found |-> <<content[j]>>]
         ELSE display_content_item(content, j + 1)

\* lines 138-143
display_number_renumbered(idx, acc) == Len(acc) + 1
display_number(idx, acc) == idx + 1

display_citation(idx, annotation, acc) ==
    [number |-> display_number(idx, acc),
     title |-> IF annotation.title # Missing THEN annotation.title ELSE "No title",
     url |-> annotation.url]

\* lines 136-143: for idx, annotation in enumerate(content_item.annotations)
RECURSIVE display_annotations(_, _, _)
display_annotations(annotations, idx, acc) ==
    IF idx >= Len(annotations) THEN [raised |-> FALSE, acc |-> acc]
    ELSE LET annotation == annotations[idx + 1] IN
         IF annotation.type = Missing THEN [raised |-> TRUE, acc |-> acc]
         ELSE IF annotation.type = "url_citation"
              THEN IF annotation.url = Missing THEN [raised |-> TRUE, acc |-> acc]
                   ELSE display_annotations(annotations, idx + 1,
                            Append(acc, display_citation(idx, annotation, acc)))
              ELSE display_annotations(annotations, idx + 1, acc)

\* lines 129-170: the content item found
display_content(content_item) ==
    IF content_item.text = Missing THEN DisplayError
    ELSE IF content_item.annotations.tag = "seq" /\ content_item.annotations.val # <<>>
         THEN LET r == display_annotations(content_item.annotations.val, 0, <<>>) IN
              IF r.raised THEN DisplayError
              ELSE Display("Search Results", content_item.text, r.acc)
         ELSE Display("AI Assistant Response", content_item.text, <<>>)

\* lines 124-173: a message item with content
display_message(message) ==
    IF message.content.tag = "noniter" THEN DisplayError
    ELSE LET c == display_content_item(message.content.val, 1) IN
         IF c.raised THEN DisplayError
         ELSE IF c.found = <<>>
              THEN Display("No text content found", NoneVal, <<>>)
              ELSE display_content(c.found[1])

\* lines 174-183: no message item with content
display_shortcut(resp) ==
    LET t == search_get_output_text(resp) IN
    IF t.raised THEN DisplayError
    ELSE IF t.value # NoneVal /\ t.value # ""
         THEN Display("AI Assistant Response", t.value, <<>>)
         ELSE Display("No message content found", NoneVal, <<>>)

search_display_search_results(resp) ==
    LET seen == IF resp.kind = "obj" /\ hasattr(resp.output)
                THEN IF resp.output.tag = "noniter"
                     THEN [raised |-> TRUE, message |-> <<>>]
                     ELSE display_items(resp.repr, resp.output.val, 1, <<>>)
                ELSE [raised |-> FALSE, message |-> <<>>]
    IN IF seen.raised THEN DisplayError
       ELSE IF seen.message # <<>> /\ hasattr(seen.message[1].content)
            THEN display_message(seen.message[1])
            ELSE display_shortcut(resp)

-----------------------------------------------------------------------------
(* Python strings as sequences of characters, and slicing *)

\* s[a:b] clamps its bounds to 0..len(s); a negative bound counts from the end
slice_bound(i, n) ==
    IF i < 0 THEN (IF i + n < 0 THEN 0 ELSE i + n)
    ELSE IF i > n THEN n ELSE i

slice(s, a, b) ==
    LET lo == slice_bound(a, Len(s))
        hi == slice_bound(b, Len(s))
    IN IF lo >= hi THEN <<>> ELSE SubSeq(s, lo + 1, hi)

slice_to(s, b) == slice(s, 0, b)
slice_from_next(s, a) == slice(s, a + 1, Len(s))
slice_from(s, a) == slice(s, a, Len(s))

\* str(value) as an f-string renders it
str_chars(v) ==
    CASE v = "https://x.test" -> <<"h", "t", "t", "p", "s", ":", "/", "/", "x", ".", "t", "e", "s", "t">>
      [] v = "" -> <<>>
      [] v = NoneVal -> <<"N", "o", "n", "e">>
      [] OTHER -> <<"?">>

AnchorOpen == <<"<", "a", " ", "h", "r", "e", "f", "=", "\"">>
AnchorMid == <<"\"", " ", "t", "a", "r", "g", "e", "t", "=", "\"", "_", "b", "l", "a", "n", "k", "\"", " ", "c", "l", "a", "s", "s", "=", "\"", "c", "i", "t", "a", "t", "i", "o", "n", "-", "l", "i", "n", "k", "\"", ">">>
AnchorClose == <<"<", "/", "a", ">">>
SpanOpen == <<"<", "s", "p", "a", "n", " ", "c", "l", "a", "s", "s", "=", "\"", "c", "i", "t", "a", "t", "i", "o", "n", "-", "l", "i", "n", "k", "\"", ">">>
SpanClose == <<"<", "/", "s", "p", "a", "n", ">">>

\* bool(citation.get("url")): None and "" are falsy
truthy(v) == v # NoneVal /\ v # "" /\ v # Missing

-----------------------------------------------------------------------------
(* format_text_with_citations, streamlit_file_search.py 683-723 *)

none_as_zero(v) == IF v = NoneInt THEN <<0>> ELSE v

offsets_or_zero(cs) ==
    [i \in 1..Len(cs) |->
        [cs[i] EXCEPT !.start_index = none_as_zero(@),
                      !.end_index = none_as_zero(@)]]

\* lines 698-700: the comprehension that drops citations without offsets
with_offsets(cs) ==
    SelectSeq(cs, LAMBDA c : c.start_index # NoneInt /\ c.end_index # NoneInt)

\* lines 698-703: sorted(..., key=start_index, reverse=True); Python's sort is
\* stable also with reverse=True, so equal keys keep their original order
RECURSIVE insert_asc(_, _)
insert_asc(sorted, c) ==
    IF sorted = <<>> THEN <<c>>
    ELSE IF Head(sorted).start_index[1] <= c.start_index[1]
         THEN <<Head(sorted)>> \o insert_asc(Tail(sorted), c)
         ELSE <<c>> \o sorted

RECURSIVE insert_desc(_, _)
insert_desc(sorted, c) ==
    IF sorted = <<>> THEN <<c>>
    ELSE IF Head(sorted).start_index[1] >= c.start_index[1]
         THEN <<Head(sorted)>> \o insert_desc(Tail(sorted), c)
         ELSE <<c>> \o sorted

RECURSIVE sorted_desc(_)
sorted_desc(cs) ==
    IF cs = <<>> THEN <<>>
    ELSE insert_desc(sorted_desc(SubSeq(cs, 1, Len(cs) - 1)), cs[Len(cs)])

sorted_citations_of(cs) == sorted_desc(with_offsets(cs))

\* line 710: the guard on one citation
span_accepted(result, start, end) == start < Len(result) /\ end <= Len(result)

link_of_marker_only(citation, cited_text) ==
    [skip |-> FALSE, link |-> SpanOpen \o cited_text \o SpanClose]

\* lines 713-719: the replacement of the cited text, or "skip"
link_of(citation, cited_text) ==
    IF citation.type = "url_citation" /\ truthy(citation.url)
    THEN [skip |-> FALSE,
          link |-> AnchorOpen \o str_chars(citation.url) \o AnchorMid
                   \o cited_text \o AnchorClose]
    ELSE IF citation.type = "file_citation" /\ truthy(citation.file_id)
         THEN [skip |-> FALSE, link |-> SpanOpen \o cited_text \o SpanClose]
         ELSE [skip |-> TRUE, link |-> <<>>]

has_markup(result) == \E i \in 1..Len(result) : result[i] = "<"

splice_one_unless_annotated(result, citation) ==
    LET start == citation.start_index[1]
        end == citation.end_index[1]
    IN IF span_accepted(result, start, end) /\ ~has_markup(result)
       THEN LET l == link_of(citation, slice(result, start, end)) IN
            IF l.skip THEN result
            ELSE slice_to(result, start) \o l.link \o slice_from(result, end)
       ELSE result

\* lines 707-721: one iteration of the loop
splice_one(result, citation) ==
    LET start == citation.start_index[1]
        end == citation.end_index[1]
    IN IF span_accepted(result, start, end)
       THEN LET l == link_of(citation, slice(result, start, end)) IN
            IF l.skip THEN result
            ELSE slice_to(result, start) \o l.link \o slice_from(result, end)
       ELSE result

RECURSIVE splice_all(_, _, _)
splice_all(result, sorted, k) ==
    IF k > Len(sorted) THEN result
    ELSE splice_all(splice_one(result, sorted[k]), sorted, k + 1)

\* lines 694-695: if not citations: return text
no_citations_returns_nothing(t) == <<>>
no_citations(t) == t

format_text_with_citations(t, cs) ==
    IF cs = <<>> THEN no_citations(t)
    ELSE splice_all(t, sorted_citations_of(cs), 1)

-----------------------------------------------------------------------------
(* format_text_with_citations, streamlit_search.py 362-394: every citation  *)
(* is rendered as a link, whatever its type and url                         *)

\* lines 386-392
web_splice_one(result, citation) ==
    LET start == citation.start_index[1]
        end == citation.end_index[1]
    IN IF span_accepted(result, start, end)
       THEN slice_to(result, start)
            \o AnchorOpen \o str_chars(citation.url) \o AnchorMid
            \o slice(result, start, end) \o AnchorClose
            \o slice_from(result, end)
       ELSE result

RECURSIVE web_splice_all(_, _, _)
web_splice_all(result, sorted, k) ==
    IF k > Len(sorted) THEN result
    ELSE web_splice_all(web_splice_one(result, sorted[k]), sorted, k + 1)

streamlit_search_format_text_with_citations(t, cs) ==
    IF cs = <<>> THEN t
    ELSE web_splice_all(t, sorted_citations_of(cs), 1)

-----------------------------------------------------------------------------
(* The payloads the parser is run on *)

TextTable ==
    << <<"t11", "t12", "t13", "t14">>,
       <<"t21", "t22", "t23", "t24">>,
       <<"t31", "t32", "t33", "t34">>,
       <<"t41", "t42", "t43", "t44">> >>

UrlAnn ==
    [type |-> "url_citation", title |-> "Title A", url |-> "https://x.test",
     file_id |-> Missing, quote |-> Missing,
     start_index |-> <<0>>, end_index |-> <<2>>]

FileAnn ==
    [type |-> "file_citation", title |-> "doc.pdf", url |-> Missing,
     file_id |-> "file-1", quote |-> "a quote",
     start_index |-> <<1>>, end_index |-> <<3>>]

OtherAnn ==
    [type |-> "file_path", title |-> Missing, url |-> Missing,
     file_id |-> "file-2", quote |-> Missing,
     start_index |-> MissingInt, end_index |-> MissingInt]

UntypedAnn == [OtherAnn EXCEPT !.type = Missing]

Payload(kind, repr, json, output, ot) ==
    [kind |-> kind, repr |-> repr, json |-> json, output |-> output, output_text |-> ot]

Encodings ==
    {"object", "mapping", "list", "json_mapping", "json_list"}

\* One logical message (a sequence of output items) in each shape the
\* callers may hand over
Encode(items, enc) ==
    CASE enc = "object" -> Payload("obj", "attr", "n/a", FSeq(items), Missing)
      [] enc = "mapping" -> Payload("dict", "key", "n/a", FSeq(items), Missing)
      [] enc = "list" -> Payload("list", "key", "n/a", FSeq(items), Missing)
      [] enc = "json_mapping" -> Payload("str", "key", "mapping", FSeq(items), Missing)
      [] enc = "json_list" -> Payload("str", "key", "list", FSeq(items), Missing)
      [] enc = "garbage" -> Payload("str", "key", "garbage", FSeq(items), Missing)
      [] enc = "object_of_dicts" -> Payload("obj", "key", "n/a", FSeq(items), Missing)
      [] enc = "list_of_objects" -> Payload("list", "attr", "n/a", FSeq(items), Missing)
      [] enc = "sdk_object" -> Payload("obj", "attr", "n/a", FSeq(items), "aggregated")

Message(content) == [type |-> "message", content |-> content]

OutputText(t, annotations) ==
    [type |-> "output_text", text |-> t, annotations |-> annotations]

\* Structure family: up to MaxItems output items holding up to MaxContent
\* content items in all
ContentPool ==
    {OutputText("", a) : a \in {FMissing, FNonIter, FSeq(<<UrlAnn>>)}}
    \cup {[type |-> "refusal", text |-> Missing, annotations |-> FMissing],
          [type |-> Missing, text |-> Missing, annotations |-> FMissing]}

ItemsWith(k) ==
    IF k = 0
    THEN {Message(FMissing), Message(FNonIter), Message(FSeq(<<>>)),
          [type |-> "web_search_call", content |-> FMissing],
          [type |-> Missing, content |-> FMissing]}
    ELSE {Message(FSeq(c)) : c \in [1..k -> ContentPool]}

RECURSIVE MessagesWithin(_, _)
MessagesWithin(n, c) ==
    {<<>>} \cup
    (IF n = 0 THEN {}
     ELSE UNION {UNION {{<<it>> \o rest : rest \in MessagesWithin(n - 1, c - k)}
                        : it \in ItemsWith(k)} : k \in 0..c})

\* every output_text content item gets a text of its own
Relabel(items) ==
    [i \in 1..Len(items) |->
        LET c == items[i].content IN
        [items[i] EXCEPT !.content =
            [tag |-> c.tag,
             val |-> [j \in 1..Len(c.val) |->
                        IF c.val[j].type = "output_text"
                        THEN [c.val[j] EXCEPT !.text = TextTable[i][j]]
                        ELSE c.val[j]]]]]

StructureMessages == {Relabel(m) : m \in MessagesWithin(MaxItems, MaxContent)}

\* Annotation family: one message, one output_text item, up to MaxAnn annotations
AnnotationLists == SeqsUpTo({UrlAnn, FileAnn, OtherAnn, UntypedAnn}, MaxAnn)

AnnotationMessages ==
    {<<Message(FSeq(<<OutputText("t11", FSeq(a))>>))>> : a \in AnnotationLists}

\* Field family: one kept annotation, every combination of optional fields
FieldAnnotations ==
    {[type |-> ty, title |-> ti, url |-> u, file_id |-> f, quote |-> q,
      start_index |-> s, end_index |-> e] :
        ty \in CitationTypes, ti \in {Missing, "Title A"},
        u \in {Missing, "https://x.test"}, f \in {Missing, "file-1"},
        q \in {Missing, "a quote"}, s \in {MissingInt, <<0>>}, e \in {MissingInt, <<2>>}}

FieldMessages ==
    {<<Message(FSeq(<<OutputText("t11", FSeq(<<a>>))>>))>> : a \in FieldAnnotations}

\* Odd payloads: a response without output, with a non-iterable output, an
\* output_text item without text
OddResponses ==
    {Payload("obj", "attr", "n/a", FMissing, Missing),
     Payload("obj", "attr", "n/a", FNonIter, Missing),
     Payload("obj", "attr", "n/a", FMissing, "aggregated"),
     Encode(<<Message(FSeq(<<OutputText(Missing, FMissing)>>))>>, "object"),
     Encode(<<Message(FSeq(<<OutputText(Missing, FMissing)>>))>>, "list")}

Responses ==
    {Encode(m, e) : m \in StructureMessages, e \in {"object", "list", "sdk_object"}}
    \cup {Encode(m, e) : m \in AnnotationMessages,
                         e \in Encodings \cup {"garbage", "object_of_dicts",
                                               "list_of_objects"}}
    \cup {Encode(m, e) : m \in FieldMessages, e \in {"object", "list"}}
    \cup OddResponses

NoResponse == Payload("obj", "attr", "n/a", FMissing, Missing)
NoOutcome == [raised |-> FALSE, value |-> NoneVal]
NoCitations == [raised |-> FALSE, value |-> <<>>]

-----------------------------------------------------------------------------
(* The interactive session and the dashboard before they run *)

\* file_search.py line 33
VECTOR_STORE_ID == "vs_67d0cc79ab4c8191a92661559e49dbd2"

NoLocation == <<>>
NoInput == [query |-> "", kind |-> "none", calls |-> <<>>, failed |-> FALSE]
NoRerun == [search_pressed |-> FALSE, query |-> "", returned |-> FALSE, viewed |-> 0]

\* file_search.py lines 381-385: the default settings
DefaultSettings ==
    /\ search_type = "combined"
    /\ context_size = "medium"
    /\ vector_store_id = VECTOR_STORE_ID
    /\ location = NoLocation

SessionIdle ==
    /\ DefaultSettings
    /\ handled = NoInput
    /\ prompts = 0

DashboardIdle ==
    /\ dashboard = "none"
    /\ search_history = <<>>
    /\ rerun = NoRerun
    /\ reruns = 0

-----------------------------------------------------------------------------
(* The parser applied to a payload *)

Init ==
    /\ pc = "start"
    /\ response \in Responses
    /\ output_text = NoOutcome
    /\ citations = NoCitations
    /\ text = <<>>
    /\ cites = <<>>
    /\ formatted_text = <<>>
    /\ formatted_again = <<>>
    /\ displayed = NoDisplay
    /\ SessionIdle
    /\ DashboardIdle

GetOutputText ==
    /\ pc = "start"
    /\ pc' = "get_output_text"
    /\ output_text' = get_output_text(response)
    /\ UNCHANGED <<response, citations, annotator_vars, display_vars, interactive_vars>>

SearchGetOutputText ==
    /\ pc = "start"
    /\ pc' = "search_get_output_text"
    /\ output_text' = search_get_output_text(response)
    /\ UNCHANGED <<response, citations, annotator_vars, display_vars, interactive_vars>>

GetCitations ==
    /\ pc = "start"
    /\ pc' = "get_citations"
    /\ citations' = get_citations(response)
    /\ UNCHANGED <<response, output_text, annotator_vars, display_vars, interactive_vars>>

StreamlitSearchGetCitations ==
    /\ pc = "start"
    /\ pc' = "streamlit_search_get_citations"
    /\ citations' = streamlit_search_get_citations(response)
    /\ UNCHANGED <<response, output_text, annotator_vars, display_vars, interactive_vars>>

Next ==
    \/ GetOutputText
    \/ SearchGetOutputText
    \/ GetCitations
    \/ StreamlitSearchGetCitations

Spec == Init /\ [][Next]_vars

-----------------------------------------------------------------------------
(* What a payload holds, stated on the payload itself (not by running the   *)
(* parser): the positions <<i, j, k>> of output item i, content item j and  *)
(* annotation k in traversal order, and where the traversal breaks off.     *)

\* how the parser reads the nodes: by attribute, by key, or not at all (a dict,
\* or a string that does not decode to a list, has nothing the parser scans)
RefMode(resp) ==
    IF resp.kind = "obj" THEN "attr"
    ELSE IF resp.kind = "list" \/ (resp.kind = "str" /\ resp.json = "list") THEN "key"
    ELSE "none"

RefRepr(resp) == IF resp.kind = "str" THEN "key" ELSE resp.repr

RefItems(resp) ==
    IF RefMode(resp) # "none" /\ resp.output.tag = "seq" THEN resp.output.val ELSE <<>>

RefContent(resp, i) ==
    LET item == RefItems(resp)[i] IN
    IF item.type = "message" /\ item.content.tag = "seq" THEN item.content.val ELSE <<>>

RefAnnotations(resp, i, j) ==
    LET c == RefContent(resp, i)[j] IN
    IF c.type = "output_text" /\ c.annotations.tag = "seq" THEN c.annotations.val ELSE <<>>

Before(p, q) ==
    \/ p[1] < q[1]
    \/ p[1] = q[1] /\ p[2] < q[2]
    \/ p[1] = q[1] /\ p[2] = q[2] /\ p[3] < q[3]

\* the structural anomalies: the payload's output is not iterable, a node is
\* not of the kind the parser reads, a node read by attribute has no type, a
\* content or annotations value is not iterable
ItemAnomalies(resp) ==
    (IF RefMode(resp) = "attr" /\ resp.output.tag = "noniter" THEN {<<0, 0, 0>>} ELSE {})
    \cup {<<i, 0, 0>> : i \in {x \in 1..Len(RefItems(resp)) :
            LET item == RefItems(resp)[x] IN
            \/ RefRepr(resp) # RefMode(resp)
            \/ RefMode(resp) = "attr" /\ item.type = Missing
            \/ item.type = "message" /\ item.content.tag = "noniter"}}

TextAnomalies(resp) ==
    ItemAnomalies(resp)
    \cup UNION {{<<i, j, 0>> : j \in {y \in 1..Len(RefContent(resp, i)) :
                    RefMode(resp) = "attr" /\ RefContent(resp, i)[y].type = Missing}}
                : i \in 1..Len(RefItems(resp))}

CitationAnomalies(resp) ==
    TextAnomalies(resp)
    \cup UNION {{<<i, j, 0>> : j \in {y \in 1..Len(RefContent(resp, i)) :
                    LET c == RefContent(resp, i)[y] IN
                    c.type = "output_text" /\ c.annotations.tag = "noniter"}}
                : i \in 1..Len(RefItems(resp))}
    \cup UNION {UNION {{<<i, j, k>> : k \in {z \in 1..Len(RefAnnotations(resp, i, j)) :
                           RefMode(resp) = "attr"
                           /\ RefAnnotations(resp, i, j)[z].type = Missing}}
                       : j \in 1..Len(RefContent(resp, i))}
                : i \in 1..Len(RefItems(resp))}

Reached(p, anomalies) == \A q \in anomalies : Before(p, q)

\* the output_text content items the scan for the text reaches
TextPositions(resp) ==
    UNION {{<<i, j, 0>> : j \in {y \in 1..Len(RefContent(resp, i)) :
                RefContent(resp, i)[y].type = "output_text"}}
           : i \in 1..Len(RefItems(resp))}

\* the annotations of kind url_citation / file_citation the enumeration reaches
KeptPositions(resp) ==
    {p \in UNION {UNION {{<<i, j, k>> : k \in {z \in 1..Len(RefAnnotations(resp, i, j)) :
                              RefAnnotations(resp, i, j)[z].type \in CitationTypes}}
                         : j \in 1..Len(RefContent(resp, i))}
                  : i \in 1..Len(RefItems(resp))}
        : Reached(p, CitationAnomalies(resp))}

AnnotationAt(resp, p) == RefAnnotations(resp, p[1], p[2])[p[3]]

Rank(p, S) == Cardinality({q \in S : Before(q, p)}) + 1

HasOutputTextItem(resp) ==
    /\ resp.output.tag = "seq"
    /\ \E i \in 1..Len(resp.output.val) :
          /\ resp.output.val[i].content.tag = "seq"
          /\ \E j \in 1..Len(resp.output.val[i].content.val) :
                resp.output.val[i].content.val[j].type = "output_text"

Numbers(cs) == [n \in 1..Len(cs) |-> cs[n].number]

-----------------------------------------------------------------------------
(* Claims about the response parser *)

SameMessage(resp, enc) == Encode(resp.output.val, enc)

WellFormedShape(resp, encs) ==
    /\ resp.output.tag = "seq"
    /\ \E e \in encs : resp = Encode(resp.output.val, e)

\* C1: for a message given as a JSON string, as a mapping with an "output"
\* key or as a bare list, get_output_text returns the same answer string.
C1_SameTextInEveryShape ==
    (pc = "get_output_text"
     /\ WellFormedShape(response, {"json_mapping", "json_list", "mapping", "list"}))
    => \A e \in {"json_mapping", "json_list", "mapping", "list"} :
          get_output_text(SameMessage(response, e)).value = output_text.value

\* C2: for a message given as a JSON string, a mapping, an object with
\* attributes or a bare list, get_citations returns the same citation list.
C2_SameCitationsInEveryShape ==
    (pc = "get_citations" /\ WellFormedShape(response, Encodings))
    => \A e \in Encodings :
          get_citations(SameMessage(response, e)).value = citations.value

C4_UndecodableString ==
    (response.kind = "str" /\ response.json = "garbage")
    => /\ pc = "get_output_text" => output_text = NoOutcome
       /\ pc \in {"get_citations", "streamlit_search_get_citations"}
          => citations = NoCitations

C4_Witness ==
    /\ pc = "get_citations"
    /\ response.kind = "str"
    /\ response.json = "garbage"
    /\ Len(response.output.val[1].content.val[1].annotations.val) > 0
    /\ citations = NoCitations

\* the citations are those of the reached annotations of a citation type, in
\* traversal order, each numbered by its position in its own annotation list
MatchesKept(resp, cs) ==
    LET kept == KeptPositions(resp) IN
    /\ Len(cs) = Cardinality(kept)
    /\ \A p \in kept :
          /\ cs[Rank(p, kept)].number = p[3]
          /\ cs[Rank(p, kept)].type = AnnotationAt(resp, p).type

ExampleTypes == <<"url_citation", "file_citation", "file_path", "url_citation">>

IsExample(resp) ==
    /\ RefMode(resp) # "none"
    /\ Len(RefItems(resp)) = 1
    /\ Len(RefContent(resp, 1)) = 1
    /\ LET a == RefAnnotations(resp, 1, 1) IN
       /\ Len(a) = Len(ExampleTypes)
       /\ \A k \in 1..Len(a) : a[k].type = ExampleTypes[k]

\* C6: get_citations keeps exactly the url_citation and file_citation
\* annotations, in order, each numbered by its 1-based position in the
\* original annotation list; [url, file, unknown, url] gives 1, 2, 4.
C6_NumberIsOriginalPosition ==
    (pc = "get_citations" /\ CitationAnomalies(response) = {})
    => /\ MatchesKept(response, citations.value)
       /\ IsExample(response) => Numbers(citations.value) = <<1, 2, 4>>

C6_Witness ==
    /\ pc = "get_citations"
    /\ IsExample(response)
    /\ Numbers(citations.value) = <<1, 2, 4>>

\* C7: the numbers of the citations one get_citations call returns are
\* strictly increasing, so no number occurs twice.
C7_NumbersStrictlyIncreasing ==
    pc = "get_citations"
    => \A n \in 1..(Len(citations.value) - 1) :
          citations.value[n].number < citations.value[n + 1].number

TextAt(resp, p) ==
    LET t == RefContent(resp, p[1])[p[2]].text IN
    IF t = Missing THEN NoneVal ELSE t

\* the first output item of type message that has content
FirstMessageWithContent(resp) ==
    LET I == {i \in 1..Len(RefItems(resp)) :
                RefItems(resp)[i].type = "message"
                /\ RefItems(resp)[i].content.tag # "missing"}
    IN IF I = {} THEN 0 ELSE CHOOSE i \in I : \A x \in I : i <= x

\* C8 as claimed: the result is the text of the first output_text content
\* item of the first message item with content, and None when that item has
\* none, even if a later message item has one.
C8_OnlyFirstMessageConsulted ==
    (pc = "get_output_text" /\ TextAnomalies(response) = {})
    => LET i == FirstMessageWithContent(response)
           P == {p \in TextPositions(response) : p[1] = i}
       IN output_text.value =
             IF P = {} THEN NoneVal
             ELSE TextAt(response, CHOOSE p \in P : \A q \in P : p[2] <= q[2])

\* C8 as amended: the result is the text of one content item, the first
\* output_text content item in traversal order over all message items (a
\* message item without one is passed over), and None when the scan meets
\* no such item or meets a structural anomaly first.
C8_FirstOutputTextOfAnyMessage ==
    pc = "get_output_text"
    => LET P == TextPositions(response) IN
       output_text.value =
          IF P = {} THEN NoneVal
          ELSE LET p == CHOOSE x \in P : \A q \in P : x = q \/ Before(x, q) IN
               IF Reached(p, TextAnomalies(response)) THEN TextAt(response, p)
               ELSE NoneVal

C8_Witness ==
    /\ pc = "get_output_text"
    /\ response.kind = "obj"
    /\ TextAnomalies(response) = {}
    /\ FirstMessageWithContent(response) = 1
    /\ TextPositions(response) # {}
    /\ \A p \in TextPositions(response) : p[1] = 2
    /\ output_text.value = "t21"

SingleList(resp) ==
    /\ RefMode(resp) # "none"
    /\ Len(RefItems(resp)) = 1
    /\ Len(RefContent(resp, 1)) = 1

\* C9 as claimed: in every variant a missing url, file_id, quote,
\* start_index or end_index is None in the citation and a missing title is
\* "No title" (checked here on the fields every variant produces).
C9_MissingFieldsAreNone ==
    (pc \in {"get_citations", "streamlit_search_get_citations"}
     /\ SingleList(response))
    => \A n \in 1..Len(citations.value) :
          LET c == citations.value[n]
              a == RefAnnotations(response, 1, 1)[c.number]
          IN /\ c.title = IF a.title = Missing THEN "No title" ELSE a.title
             /\ c.url = IF a.url = Missing THEN NoneVal ELSE a.url
             /\ c.start_index = IF a.start_index = MissingInt THEN NoneInt
                                ELSE a.start_index
             /\ c.end_index = IF a.end_index = MissingInt THEN NoneInt
                              ELSE a.end_index

\* C9 as amended: get_citations of file_search.py gives every kept
\* annotation's missing url, file_id, quote, start_index and end_index as
\* None and a missing title as "No title", and copies present fields;
\* get_citations of streamlit_search.py does the same for title, start_index
\* and end_index but gives a missing url as the empty string.
C9_MissingFieldsPerVariant ==
    /\ pc = "get_citations"
       => \A p \in KeptPositions(response) :
             LET c == citations.value[Rank(p, KeptPositions(response))]
                 a == AnnotationAt(response, p)
             IN /\ c.title = IF a.title = Missing THEN "No title" ELSE a.title
                /\ c.url = IF a.url = Missing THEN NoneVal ELSE a.url
                /\ c.file_id = IF a.file_id = Missing THEN NoneVal ELSE a.file_id
                /\ c.quote = IF a.quote = Missing THEN NoneVal ELSE a.quote
                /\ c.start_index = IF a.start_index = MissingInt THEN NoneInt
                                   ELSE a.start_index
                /\ c.end_index = IF a.end_index = MissingInt THEN NoneInt
                                 ELSE a.end_index
    /\ (pc = "streamlit_search_get_citations" /\ SingleList(response))
       => \A n \in 1..Len(citations.value) :
             LET c == citations.value[n]
                 a == RefAnnotations(response, 1, 1)[c.number]
             IN /\ a.type = "url_citation"
                /\ c.title = IF a.title = Missing THEN "No title" ELSE a.title
                /\ c.url = IF a.url = Missing THEN "" ELSE a.url
                /\ c.start_index = IF a.start_index = MissingInt THEN NoneInt
                                   ELSE a.start_index
                /\ c.end_index = IF a.end_index = MissingInt THEN NoneInt
                                 ELSE a.end_index

C9_Witness ==
    /\ pc = "get_citations"
    /\ SingleList(response)
    /\ Len(citations.value) = 1
    /\ LET a == RefAnnotations(response, 1, 1)[1] IN
       /\ a.title = Missing /\ a.url = Missing /\ a.file_id = Missing
       /\ a.quote = Missing /\ a.start_index = MissingInt /\ a.end_index = <<2>>
    /\ citations.value[1].title = "No title"
    /\ citations.value[1].url = NoneVal
    /\ citations.value[1].end_index = <<2>>

-----------------------------------------------------------------------------
(* The annotator applied to a text and a citation list *)

Letters == <<"A", "B", "C", "D", "E", "F", "G", "H">>

\* texts whose characters all differ and occur in no markup and no url, so
\* that a lost, doubled or moved character shows
Texts == {SubSeq(Letters, 1, n) : n \in 0..MaxTextLen}

Citation(type, url, file_id, s, e) ==
    [number |-> 1, type |-> type, title |-> "Title A", url |-> url,
     file_id |-> file_id, quote |-> NoneVal, start_index |-> s, end_index |-> e]

Offsets == {NoneInt} \cup {<<n>> : n \in -1..(MaxTextLen + 1)}

Renderings ==
    {<<"url_citation", "https://x.test", NoneVal>>,
     <<"url_citation", NoneVal, NoneVal>>,
     <<"url_citation", "", NoneVal>>,
     <<"file_citation", NoneVal, "file-1">>,
     <<"file_citation", NoneVal, NoneVal>>}

\* one citation: every rendering with every pair of offsets
SingleCitations ==
    {Citation(r[1], r[2], r[3], s, e) : r \in Renderings, s \in Offsets, e \in Offsets}

\* several citations: links over every span within the text, one that ends
\* past the text, and a few citations of the other kinds
SeveralPool ==
    {Citation("url_citation", "https://x.test", NoneVal, <<s>>, <<e>>) :
        s \in 0..MaxTextLen, e \in 0..MaxTextLen}
    \cup {Citation("url_citation", "https://x.test", NoneVal, <<0>>, <<MaxTextLen + 1>>),
          Citation("file_citation", NoneVal, "file-1", <<0>>, <<2>>),
          Citation("url_citation", NoneVal, NoneVal, <<1>>, <<3>>),
          Citation("url_citation", "https://x.test", NoneVal, NoneInt, <<2>>),
          Citation("url_citation", "https://x.test", NoneVal, <<1>>, NoneInt)}

AnnotateInputs ==
    {<<t, <<>>>> : t \in Texts}
    \cup {<<t, <<c>>>> : t \in Texts, c \in SingleCitations}
    \cup {<<SubSeq(Letters, 1, MaxTextLen), cs>> :
            cs \in UNION {[1..k -> SeveralPool] : k \in 2..MaxCites}}

InitAnnotate ==
    /\ pc = "start"
    /\ response = NoResponse
    /\ output_text = NoOutcome
    /\ citations = NoCitations
    /\ \E in \in AnnotateInputs : text = in[1] /\ cites = in[2]
    /\ formatted_text = <<>>
    /\ formatted_again = <<>>
    /\ displayed = NoDisplay
    /\ SessionIdle
    /\ DashboardIdle

FormatTextWithCitationsInPlace ==
    /\ pc = "start"
    /\ pc' = "format_text_with_citations"
    /\ formatted_text' = format_text_with_citations(text, cites)
    /\ cites' = sorted_citations_of(cites)
    /\ UNCHANGED <<parser_vars, display_vars, interactive_vars, text, formatted_again>>

FormatTextWithCitations ==
    /\ pc = "start"
    /\ pc' = "format_text_with_citations"
    /\ formatted_text' = format_text_with_citations(text, cites)
    /\ UNCHANGED <<parser_vars, display_vars, interactive_vars, text, cites, formatted_again>>

StreamlitSearchFormatTextWithCitations ==
    /\ pc = "start"
    /\ pc' = "streamlit_search_format_text_with_citations"
    /\ formatted_text' = streamlit_search_format_text_with_citations(text, cites)
    /\ UNCHANGED <<parser_vars, display_vars, interactive_vars, text, cites, formatted_again>>

NextAnnotate ==
    \/ FormatTextWithCitations
    \/ StreamlitSearchFormatTextWithCitations

SpecAnnotate == InitAnnotate /\ [][NextAnnotate]_vars

-----------------------------------------------------------------------------
(* Claims about the annotator *)

Formatted ==
    pc \in {"format_text_with_citations", "streamlit_search_format_text_with_citations"}

\* C10: format_text_with_citations called with an empty citation list
\* returns the input text unchanged, for every text.
C10_EmptyCitationsKeepText ==
    (Formatted /\ cites = <<>>) => formatted_text = text

C10_Witness ==
    /\ pc = "format_text_with_citations"
    /\ cites = <<>>
    /\ Len(text) = 3
    /\ formatted_text = text

\* what the annotator is meant to do, stated on the original text

Start(c) == c.start_index[1]
End(c) == c.end_index[1]

HasOffsets(c) == c.start_index # NoneInt /\ c.end_index # NoneInt

\* 0 <= start < end <= length(text)
ValidSpan(t, c) ==
    /\ HasOffsets(c)
    /\ 0 <= Start(c)
    /\ Start(c) < End(c)
    /\ End(c) <= Len(t)

Renderable(c) ==
    \/ c.type = "url_citation" /\ truthy(c.url)
    \/ c.type = "file_citation" /\ truthy(c.file_id)

\* the wrapped rendering of a cited string
Markup(c, cited) ==
    IF c.type = "url_citation"
    THEN AnchorOpen \o str_chars(c.url) \o AnchorMid \o cited \o AnchorClose
    ELSE SpanOpen \o cited \o SpanClose

\* the text with the one span of c wrapped
Wrapped(t, c) ==
    SubSeq(t, 1, Start(c))
    \o Markup(c, SubSeq(t, Start(c) + 1, End(c)))
    \o SubSeq(t, End(c) + 1, Len(t))

\* C11: for a text and one url_citation with a url and offsets
\* 0 <= start < end <= len(text), format_text_with_citations returns
\* text[:start] + the opening link markup for the url + text[start:end] + the
\* closing markup + text[end:] (both variants of the function).
C11_OneLinkWrapsExactlyItsSpan ==
    (/\ Formatted
     /\ Len(cites) = 1
     /\ cites[1].type = "url_citation"
     /\ truthy(cites[1].url)
     /\ ValidSpan(text, cites[1]))
    => formatted_text = Wrapped(text, cites[1])

C11_Witness ==
    /\ pc = "format_text_with_citations"
    /\ text = <<"A", "B", "C", "D">>
    /\ Len(cites) = 1
    /\ cites[1].type = "url_citation"
    /\ cites[1].url = "https://x.test"
    /\ cites[1].start_index = <<1>>
    /\ cites[1].end_index = <<3>>
    /\ formatted_text = <<"A">> \o AnchorOpen \o str_chars("https://x.test")
                        \o AnchorMid \o <<"B", "C">> \o AnchorClose \o <<"D">>

\* spans [start, end) that share no position of the text
Disjoint(c, d) == End(c) <= Start(d) \/ End(d) <= Start(c)

PairwiseDisjoint(cs) ==
    \A i, j \in 1..Len(cs) : i < j => Disjoint(cs[i], cs[j])

AllValid(t, cs) ==
    \A i \in 1..Len(cs) : ValidSpan(t, cs[i]) /\ Renderable(cs[i])

\* the original text read from left to right from position from (0-based),
\* each span replaced by its own wrapped rendering
RECURSIVE WrappedAll(_, _, _)
WrappedAll(t, cs, from) ==
    LET ahead == {i \in 1..Len(cs) : Start(cs[i]) >= from} IN
    IF ahead = {} THEN SubSeq(t, from + 1, Len(t))
    ELSE LET i == CHOOSE k \in ahead : \A m \in ahead : Start(cs[k]) <= Start(cs[m])
         IN SubSeq(t, from + 1, Start(cs[i]))
            \o Markup(cs[i], SubSeq(t, Start(cs[i]) + 1, End(cs[i])))
            \o WrappedAll(t, cs, End(cs[i]))

\* C12: for a list of valid citations whose spans are pairwise
\* non-overlapping in the original text, one format_text_with_citations call
\* (streamlit_file_search.py) wraps every span: the output is the original
\* text with each text[start:end] replaced by its own wrapped rendering and
\* every character outside the spans kept in its original order.
C12_DisjointSpansAllWrapped ==
    (/\ pc = "format_text_with_citations"
     /\ AllValid(text, cites)
     /\ PairwiseDisjoint(cites))
    => formatted_text = WrappedAll(text, cites, 0)

C12_Witness ==
    /\ pc = "format_text_with_citations"
    /\ text = SubSeq(Letters, 1, MaxTextLen)
    /\ Len(cites) = 2
    /\ cites[1].type = "file_citation" /\ cites[1].file_id = "file-1"
    /\ cites[1].start_index = <<0>> /\ cites[1].end_index = <<2>>
    /\ cites[2].type = "url_citation" /\ cites[2].url = "https://x.test"
    /\ cites[2].start_index = <<3>> /\ cites[2].end_index = <<4>>
    /\ formatted_text = SpanOpen \o <<"A", "B">> \o SpanClose \o <<"C">>
                        \o AnchorOpen \o str_chars("https://x.test") \o AnchorMid
                        \o <<"D">> \o AnchorClose \o SubSeq(Letters, 5, MaxTextLen)

Orders(n) ==
    {p \in [1..n -> 1..n] : \A i, j \in 1..n : i # j => p[i] # p[j]}

Permuted(cs, p) == [i \in 1..Len(cs) |-> cs[p[i]]]

\* the function that the taken step has applied
Applied(t, cs) ==
    IF pc = "format_text_with_citations"
    THEN format_text_with_citations(t, cs)
    ELSE streamlit_search_format_text_with_citations(t, cs)

AllHaveOffsets(cs) == \A i \in 1..Len(cs) : HasOffsets(cs[i])

\* C13: the output of format_text_with_citations does not depend on the
\* order in which the citations are given: for a fixed text and citations
\* with pairwise non-overlapping spans, every permutation of the citation
\* list yields the same string.
C13_OrderOfCitationsIrrelevant ==
    (/\ Formatted
     /\ AllHaveOffsets(cites)
     /\ PairwiseDisjoint(cites))
    => \A p \in Orders(Len(cites)) :
           Applied(text, Permuted(cites, p)) = formatted_text

\* the same for spans that are all proper, 0 <= start < end <= len(text):
\* their start offsets differ, so the descending sort fixes the order
OrderIrrelevantForProperSpans ==
    (/\ Formatted
     /\ \A i \in 1..Len(cites) : ValidSpan(text, cites[i])
     /\ PairwiseDisjoint(cites))
    => \A p \in Orders(Len(cites)) :
           Applied(text, Permuted(cites, p)) = formatted_text

OneCitation == Formatted /\ Len(cites) = 1 /\ HasOffsets(cites[1])

\* C14: a citation with inverted offsets (start_index > end_index) is
\* skipped by format_text_with_citations: when it is the only citation the
\* output equals the input text.
C14_InvertedOffsetsSkipped ==
    (OneCitation /\ Start(cites[1]) > End(cites[1]))
    => formatted_text = text

\* C15: a citation with an empty span (start_index = end_index, both within
\* the text) is skipped by format_text_with_citations
\* (streamlit_file_search.py): no markup is inserted
\* and, when it is the only citation, the output equals the input text.
C15_EmptySpanSkipped ==
    (/\ OneCitation
     /\ pc = "format_text_with_citations"
     /\ Start(cites[1]) = End(cites[1])
     /\ 0 <= Start(cites[1])
     /\ End(cites[1]) <= Len(text))
    => formatted_text = text

\* C16: a citation with a negative start_index is skipped by
\* format_text_with_citations: no markup is inserted and, when it is the only
\* citation, the output equals the input text.
C16_NegativeStartSkipped ==
    (OneCitation /\ Start(cites[1]) < 0)
    => formatted_text = text

EndsPastText(c) == HasOffsets(c) /\ End(c) > Len(text)

\* C17: in any format_text_with_citations call, with any other citations in
\* the list, a citation whose end_index is greater than the length of the
\* input text is skipped and the remaining citations are still applied: the
\* output is the one the call gives without that citation (the input text
\* when it is the only citation).
C17_EndPastTextSkipped ==
    (Formatted /\ \E i \in 1..Len(cites) : EndsPastText(cites[i]))
    => formatted_text
         = Applied(text, SelectSeq(cites, LAMBDA c : ~EndsPastText(c)))

\* C18: when two citations in one format_text_with_citations call
\* (streamlit_file_search.py) have overlapping spans, identical spans
\* included, the overlapping citation is skipped and the other is still
\* applied, so exactly one of the two is wrapped.
C18_OverlappingCitationSkipped ==
    (/\ pc = "format_text_with_citations"
     /\ Len(cites) = 2
     /\ AllValid(text, cites)
     /\ ~Disjoint(cites[1], cites[2]))
    => formatted_text \in {Wrapped(text, cites[1]), Wrapped(text, cites[2])}

OriginalCharacters == {Letters[i] : i \in 1..Len(Letters)}

\* C19: for every text and every citation list (overlapping or invalid spans
\* included), each citation that format_text_with_citations applies wraps
\* exactly the substring text[start_index:end_index] of the original text, and
\* no character of the original text is lost, duplicated or moved: the output
\* without its markup is the original text.
C19_OriginalTextKept ==
    Formatted
    => SelectSeq(formatted_text, LAMBDA ch : ch \in OriginalCharacters) = text

Unrenderable(c) ==
    \/ c.type = "url_citation" /\ ~truthy(c.url)
    \/ c.type = "file_citation" /\ ~truthy(c.file_id)

\* C20: in format_text_with_citations, a url_citation without a url and a
\* file_citation without a file_id are skipped: the text in their span is
\* left unmodified and the other citations are still applied, so the output
\* is the one the call gives without them.
C20_MissingRenderingFieldSkipped ==
    (Formatted /\ \E i \in 1..Len(cites) : Unrenderable(cites[i]))
    => formatted_text
         = Applied(text, SelectSeq(cites, LAMBDA c : ~Unrenderable(c)))

\* the same for streamlit_file_search.py alone, whose lines 713-719 skip
MissingRenderingFieldSkippedInFileSearch ==
    pc = "format_text_with_citations" => C20_MissingRenderingFieldSkipped

\* C21: a citation whose start_index or end_index is None is filtered out
\* before splicing: it never changes the text, and the output equals what the
\* call returns for the same list without that citation; a start_index of 0
\* counts as present.
C21_CitationsWithoutOffsetsDropped ==
    /\ (Formatted /\ \E i \in 1..Len(cites) : ~HasOffsets(cites[i]))
       => formatted_text = Applied(text, SelectSeq(cites, HasOffsets))
    /\ (/\ Formatted
        /\ Len(cites) = 1
        /\ cites[1].type = "url_citation"
        /\ truthy(cites[1].url)
        /\ ValidSpan(text, cites[1])
        /\ Start(cites[1]) = 0)
       => formatted_text # text

C21_Witness ==
    /\ pc = "format_text_with_citations"
    /\ Len(cites) = 2
    /\ cites[1].start_index = NoneInt
    /\ cites[1].end_index = <<2>>
    /\ cites[2].start_index = <<0>>
    /\ cites[2].end_index = <<1>>
    /\ formatted_text = Wrapped(text, cites[2])
    /\ formatted_text # text

-----------------------------------------------------------------------------
(* The annotator called a second time: with the same inputs, and on its own *)
(* output                                                                   *)

AgainInputs ==
    {<<t, <<>>>> : t \in Texts}
    \cup {<<t, <<c>>>> : t \in Texts, c \in SingleCitations}
    \cup {<<SubSeq(Letters, 1, MaxTextLen), cs>> : cs \in [1..2 -> SeveralPool]}

InitAgain ==
    /\ pc = "start"
    /\ response = NoResponse
    /\ output_text = NoOutcome
    /\ citations = NoCitations
    /\ \E in \in AgainInputs : text = in[1] /\ cites = in[2]
    /\ formatted_text = <<>>
    /\ formatted_again = <<>>
    /\ displayed = NoDisplay
    /\ SessionIdle
    /\ DashboardIdle

\* a second call with the arguments of the first
FormatTextWithCitationsTwice ==
    /\ pc = "format_text_with_citations"
    /\ pc' = "format_text_with_citations_twice"
    /\ formatted_again' = format_text_with_citations(text, cites)
    /\ UNCHANGED <<parser_vars, display_vars, interactive_vars, text, cites, formatted_text>>

StreamlitSearchFormatTextWithCitationsTwice ==
    /\ pc = "streamlit_search_format_text_with_citations"
    /\ pc' = "streamlit_search_format_text_with_citations_twice"
    /\ formatted_again' = streamlit_search_format_text_with_citations(text, cites)
    /\ UNCHANGED <<parser_vars, display_vars, interactive_vars, text, cites, formatted_text>>

\* a second call on the string the first has returned
FormatOwnOutput ==
    /\ pc = "format_text_with_citations"
    /\ pc' = "format_own_output"
    /\ formatted_again' = format_text_with_citations(formatted_text, cites)
    /\ UNCHANGED <<parser_vars, display_vars, interactive_vars, text, cites, formatted_text>>

NextAgain ==
    \/ FormatTextWithCitations
    \/ StreamlitSearchFormatTextWithCitations
    \/ FormatTextWithCitationsTwice
    \/ StreamlitSearchFormatTextWithCitationsTwice
    \/ FormatOwnOutput

SpecAgain == InitAgain /\ [][NextAgain]_vars

\* C22: format_text_with_citations (streamlit_file_search.py) is not
\* idempotent on its own output: whenever a first call applies at least one
\* citation, calling it again on that result with the same citations wraps
\* again, so the second result differs from the first.
C22_SecondCallWrapsAgain ==
    (pc = "format_own_output" /\ formatted_text # text)
    => formatted_again # formatted_text

C22_Witness ==
    /\ pc = "format_own_output"
    /\ text = <<"A", "B", "C", "D">>
    /\ Len(cites) = 1
    /\ cites[1].start_index = <<1>>
    /\ cites[1].end_index = <<3>>
    /\ formatted_text = Wrapped(text, cites[1])
    /\ formatted_again = <<"A">> \o AnchorOpen \o str_chars("https://x.test")
                         \o AnchorMid \o <<"<", "a">> \o AnchorClose
                         \o SubSeq(formatted_text, 4, Len(formatted_text))

WebCitation(c) ==
    c.type = "url_citation" /\ truthy(c.url) /\ HasOffsets(c)

\* C25: the two annotator variants agree: for every text and every list of
\* citations that each have type "url_citation", a non-empty url and non-null
\* offsets, format_text_with_citations of streamlit_search.py and of
\* streamlit_file_search.py return the same string.
C25_VariantsAgreeOnWebCitations ==
    (\A i \in 1..Len(cites) : WebCitation(cites[i]))
    => /\ pc = "format_text_with_citations"
          => formatted_text = streamlit_search_format_text_with_citations(text, cites)
       /\ pc = "streamlit_search_format_text_with_citations"
          => formatted_text = format_text_with_citations(text, cites)

C25_Witness ==
    /\ pc = "streamlit_search_format_text_with_citations"
    /\ Len(cites) = 2
    /\ \A i \in 1..2 : WebCitation(cites[i]) /\ ValidSpan(text, cites[i])
    /\ Disjoint(cites[1], cites[2])
    /\ formatted_text = format_text_with_citations(text, cites)
    /\ formatted_text = WrappedAll(text, cites, 0)

-----------------------------------------------------------------------------
(* The console display of search.py applied to a payload *)

InitDisplay ==
    /\ pc = "start"
    /\ response \in Responses
    /\ output_text = NoOutcome
    /\ citations = NoCitations
    /\ text = <<>>
    /\ cites = <<>>
    /\ formatted_text = <<>>
    /\ formatted_again = <<>>
    /\ displayed = NoDisplay
    /\ SessionIdle
    /\ DashboardIdle

SearchDisplaySearchResults ==
    /\ pc = "start"
    /\ pc' = "search_display_search_results"
    /\ displayed' = search_display_search_results(response)
    /\ UNCHANGED <<parser_vars, annotator_vars, interactive_vars>>

NextDisplay ==
    \/ SearchDisplaySearchResults

SpecDisplay == InitDisplay /\ [][NextDisplay]_vars

ShowsText == displayed.panel \in {"Search Results", "AI Assistant Response"}

\* C24: the console display of search.py shows the answer text of the same
\* message item that get_output_text selects, namely the first message item
\* of the response, also when the output holds several message items:
\* whenever both find a text in the output items, it is the same text.
C24_DisplayShowsTextOfFirstMessage ==
    (/\ pc = "search_display_search_results"
     /\ response.output_text = Missing
     /\ ShowsText
     /\ ~search_get_output_text(response).raised
     /\ search_get_output_text(response).value # NoneVal)
    => displayed.content = search_get_output_text(response).value

\* an attribute-bearing response with one message item holding one
\* output_text content item
OneMessageOneText ==
    /\ response.kind = "obj"
    /\ response.repr = "attr"
    /\ response.output.tag = "seq"
    /\ Len(response.output.val) = 1
    /\ response.output.val[1].type = "message"
    /\ response.output.val[1].content.tag = "seq"
    /\ Len(response.output.val[1].content.val) = 1
    /\ response.output.val[1].content.val[1].type = "output_text"

TheAnnotations ==
    LET a == response.output.val[1].content.val[1].annotations
    IN IF a.tag = "seq" THEN a.val ELSE <<>>

WebEntry(c) == [number |-> c.number, title |-> c.title, url |-> c.url]

WebEntries(cs) == [i \in 1..Len(cs) |-> WebEntry(cs[i])]

\* the url_citation entries of the three variants
FileSearchWebEntries ==
    WebEntries(SelectSeq(get_citations(response).value,
                         LAMBDA c : c.type = "url_citation"))

StreamlitSearchWebEntries ==
    WebEntries(streamlit_search_get_citations(response).value)

AnnotationsComplete ==
    \A i \in 1..Len(TheAnnotations) :
        /\ TheAnnotations[i].type # Missing
        /\ TheAnnotations[i].type = "url_citation" => TheAnnotations[i].url # Missing

-----------------------------------------------------------------------------
(* interactive_mode, file_search.py 369-493: one action per input handled   *)

SearchTypes == {"file", "web", "combined"}
ContextSizes == {"low", "medium", "high"}
VectorStores == {VECTOR_STORE_ID, "vs_other"}

Queries ==
    {"exit", "EXIT", "quit", "Quit", "settings", "SETTINGS",
     "capital of France", "Exit please", ""}

\* str.lower() on the inputs above
lower(query) ==
    CASE query = "EXIT" -> "exit"
      [] query = "Quit" -> "quit"
      [] query = "SETTINGS" -> "settings"
      [] query = "Exit please" -> "exit please"
      [] OTHER -> query

\* line 407: if query.lower() in ['exit', 'quit']
is_exit_as_typed(query) == query \in {"exit", "quit"}
is_exit(query) == lower(query) \in {"exit", "quit"}

\* line 411: if query.lower() == 'settings'
is_settings(query) == lower(query) = "settings"

\* lines 446-457: the location dict holds the answers that are not empty
location_dict(country, city, region) ==
    <<[country |-> IF country # "" THEN country ELSE Missing,
       city |-> IF city # "" THEN city ELSE Missing,
       region |-> IF region # "" THEN region ELSE Missing]>>

\* lines 425-433: context size is asked for a web or combined search
context_size_after(new_type, answer) ==
    IF new_type \in {"web", "combined"} THEN answer ELSE context_size

\* lines 435-440: the vector store is asked for a file or combined search
vector_store_id_after(new_type, answer) ==
    IF new_type \in {"file", "combined"} THEN answer ELSE vector_store_id

\* lines 442-459: the location is asked for a web or combined search
location_reset_unless_given(new_type, use_location, answer) ==
    IF new_type \in {"web", "combined"} /\ use_location THEN answer ELSE NoLocation
location_after(new_type, use_location, answer) ==
    IF new_type \in {"web", "combined"}
    THEN IF use_location THEN answer ELSE NoLocation
    ELSE location

\* lines 471-478: the one search call of an iteration, with the arguments
\* it is given
search_call(query) ==
    IF search_type = "file"
    THEN [kind |-> "file", query |-> query, vector_store_id |-> vector_store_id]
    ELSE IF search_type = "web"
         THEN [kind |-> "web", query |-> query, location |-> location,
               context_size |-> context_size]
         ELSE [kind |-> "combined", query |-> query,
               vector_store_id |-> vector_store_id, location |-> location,
               context_size |-> context_size]

\* lines 486-488: except Exception prints the error and the loop goes on
pc_after_search_reraising(failed) == IF failed THEN "crashed" ELSE "prompt"
pc_after_search(failed) == "prompt"

InitSession ==
    /\ pc = "prompt"
    /\ response = NoResponse
    /\ output_text = NoOutcome
    /\ citations = NoCitations
    /\ text = <<>>
    /\ cites = <<>>
    /\ formatted_text = <<>>
    /\ formatted_again = <<>>
    /\ displayed = NoDisplay
    /\ SessionIdle
    /\ DashboardIdle

\* lines 407-409
Exit ==
    /\ pc = "prompt"
    /\ prompts < MaxPrompts
    /\ \E query \in Queries :
        /\ is_exit(query)
        /\ handled' = [query |-> query, kind |-> "exit", calls |-> <<>>,
                       failed |-> FALSE]
    /\ pc' = "goodbye"
    /\ prompts' = prompts + 1
    /\ UNCHANGED <<search_type, context_size, vector_store_id, location>>
    /\ UNCHANGED <<batch_vars, dashboard_vars>>

\* lines 411-462
Settings ==
    /\ pc = "prompt"
    /\ prompts < MaxPrompts
    /\ \E query \in Queries :
        /\ ~is_exit(query)
        /\ is_settings(query)
        /\ handled' = [query |-> query, kind |-> "settings", calls |-> <<>>,
                       failed |-> FALSE]
    /\ \E new_type \in SearchTypes, new_size \in ContextSizes,
          new_store \in VectorStores, use_location \in BOOLEAN,
          country \in {"US", "FR"}, city \in {"", "Paris"}, region \in {""} :
        /\ search_type' = new_type
        /\ context_size' = context_size_after(new_type, new_size)
        /\ vector_store_id' = vector_store_id_after(new_type, new_store)
        /\ location' = location_after(new_type, use_location,
                                      location_dict(country, city, region))
    /\ pc' = "prompt"
    /\ prompts' = prompts + 1
    /\ UNCHANGED <<batch_vars, dashboard_vars>>

\* lines 464-488
Search ==
    /\ pc = "prompt"
    /\ prompts < MaxPrompts
    /\ \E query \in Queries, failed \in BOOLEAN :
        /\ ~is_exit(query)
        /\ ~is_settings(query)
        /\ handled' = [query |-> query, kind |-> "search",
                       calls |-> <<search_call(query)>>, failed |-> failed]
        /\ pc' = pc_after_search(failed)
    /\ prompts' = prompts + 1
    /\ UNCHANGED <<search_type, context_size, vector_store_id, location>>
    /\ UNCHANGED <<batch_vars, dashboard_vars>>

\* lines 490-493: Ctrl+C at the prompt
KeyboardInterrupt ==
    /\ pc = "prompt"
    /\ pc' = "interrupted"
    /\ UNCHANGED <<session_vars, batch_vars, dashboard_vars>>

\* lines 490-493: Ctrl+C while the search call is running; KeyboardInterrupt
\* is no Exception, so line 486 does not catch it
KeyboardInterruptInSearch ==
    /\ pc = "prompt"
    /\ prompts < MaxPrompts
    /\ \E query \in Queries :
        /\ ~is_exit(query)
        /\ ~is_settings(query)
        /\ handled' = [query |-> query, kind |-> "search",
                       calls |-> <<search_call(query)>>, failed |-> FALSE]
    /\ pc' = "interrupted"
    /\ prompts' = prompts + 1
    /\ UNCHANGED <<search_type, context_size, vector_store_id, location>>
    /\ UNCHANGED <<batch_vars, dashboard_vars>>

NextSession ==
    \/ Exit
    \/ Settings
    \/ Search
    \/ KeyboardInterrupt
    \/ KeyboardInterruptInSearch

SpecSession == InitSession /\ [][NextSession]_vars

\* C27: in interactive_mode each prompt input is handled in exactly one of
\* three ways: "exit" or "quit" in any letter case ends the session without
\* a search; "settings" in any letter case issues no search and returns to
\* the prompt; any other input issues exactly one search, of the kind given
\* by the current search_type and with the current vector_store_id, location
\* and context_size.
C27_OneOfThreeWays ==
    [][prompts' = prompts + 1 =>
        IF lower(handled'.query) \in {"exit", "quit"}
        THEN handled'.calls = <<>> /\ pc' = "goodbye"
        ELSE IF lower(handled'.query) = "settings"
        THEN handled'.calls = <<>> /\ pc' = "prompt"
        ELSE /\ Len(handled'.calls) = 1
             /\ handled'.calls[1].kind = search_type
             /\ handled'.calls[1].query = handled'.query
             /\ search_type \in {"file", "combined"}
                => handled'.calls[1].vector_store_id = vector_store_id
             /\ search_type \in {"web", "combined"}
                => /\ handled'.calls[1].location = location
                   /\ handled'.calls[1].context_size = context_size]_vars

C27_Witness ==
    /\ pc = "prompt"
    /\ prompts = 2
    /\ search_type = "web"
    /\ context_size = "high"
    /\ location # NoLocation
    /\ handled.query = "Exit please"
    /\ handled.calls = <<[kind |-> "web", query |-> "Exit please",
                          location |-> location, context_size |-> "high"]>>

SettingsUnchanged ==
    UNCHANGED <<search_type, context_size, vector_store_id, location>>

\* C28: in interactive_mode a search that fails with an exception neither
\* ends the session nor changes any setting: search_type, context_size,
\* vector_store_id and location are the same at the next prompt, and the
\* loop is left only by exit, quit or a keyboard interrupt.
C28_FailedSearchKeepsSession ==
    [][/\ (prompts' = prompts + 1 /\ handled'.kind = "search" /\ handled'.failed)
          => (pc' = "prompt" /\ SettingsUnchanged)
       /\ (pc = "prompt" /\ pc' # "prompt")
          => \/ pc' = "interrupted"
             \/ pc' = "goodbye" /\ lower(handled'.query) \in {"exit", "quit"}]_vars

C28_Witness ==
    /\ pc = "prompt"
    /\ prompts = 2
    /\ handled.kind = "search"
    /\ handled.failed
    /\ search_type = "file"
    /\ vector_store_id = "vs_other"

\* C29: the settings dialog changes only the settings relevant to the newly
\* chosen search type: choosing "file" leaves context_size and location
\* unchanged, choosing "web" leaves vector_store_id unchanged, and after any
\* sequence of settings dialogs search_type is one of file, web, combined and
\* context_size is one of low, medium, high.
C29_DialogChangesRelevantSettingsOnly ==
    /\ [](search_type \in SearchTypes /\ context_size \in ContextSizes)
    /\ [][(prompts' = prompts + 1 /\ handled'.kind = "settings")
          => /\ search_type' = "file"
                => (context_size' = context_size /\ location' = location)
             /\ search_type' = "web"
                => vector_store_id' = vector_store_id]_vars

C29_Witness ==
    /\ pc = "prompt"
    /\ prompts = 2
    /\ handled.kind = "settings"
    /\ search_type = "file"
    /\ context_size = "high"
    /\ location = location_dict("FR", "Paris", "")

-----------------------------------------------------------------------------
(* The dashboards, streamlit_file_search.py 784-1008 and                    *)
(* streamlit_search.py 707-813: one action per rerun of the script          *)

Dashboards == {"streamlit_file_search", "streamlit_search"}

DashboardQueries == {"", "capital of France"}

\* streamlit_file_search.py 962-967 and streamlit_search.py 737-741: the
\* entry appended; the web dashboard keeps no search type
history_entry(d, query, timestamp, chosen_type) ==
    [query |-> query, timestamp |-> timestamp, response |-> "response",
     search_type |-> IF d = "streamlit_file_search" THEN chosen_type ELSE "web"]

\* streamlit_file_search.py 949-967: if search_pressed and query, then
\* if response (perform_* returns None when the API call fails);
\* streamlit_search.py 719-741: the append follows perform_search inside
\* the try, and is skipped when perform_search raises
history_after_any_press(history, search_pressed, query, returned, entry) ==
    IF search_pressed /\ query # "" THEN Append(history, entry) ELSE history
history_after(history, search_pressed, query, returned, entry) ==
    IF search_pressed /\ query # "" /\ returned
    THEN Append(history, entry)
    ELSE history

InitDashboard ==
    /\ pc = "start"
    /\ response = NoResponse
    /\ output_text = NoOutcome
    /\ citations = NoCitations
    /\ text = <<>>
    /\ cites = <<>>
    /\ formatted_text = <<>>
    /\ formatted_again = <<>>
    /\ displayed = NoDisplay
    /\ SessionIdle
    /\ dashboard \in Dashboards
    /\ search_history = <<>>
    /\ rerun = NoRerun
    /\ reruns = 0

\* a rerun in which the search button is the widget that was pressed
RerunSearchPressed ==
    /\ reruns < MaxReruns
    /\ \E query \in DashboardQueries, returned \in BOOLEAN, chosen_type \in SearchTypes :
        /\ returned => query # ""
        /\ rerun' = [search_pressed |-> TRUE, query |-> query,
                     returned |-> returned, viewed |-> 0]
        /\ search_history' =
             history_after(search_history, TRUE, query, returned,
                           history_entry(dashboard, query, reruns + 1, chosen_type))
    /\ reruns' = reruns + 1
    /\ pc' = "rerun"
    /\ UNCHANGED <<dashboard, batch_vars, session_vars>>

\* a rerun in which a "View Results" button of the history was pressed
\* (streamlit_file_search.py 991-993, streamlit_search.py 784-811)
RerunViewResults ==
    /\ reruns < MaxReruns
    /\ \E query \in DashboardQueries, i \in 1..Len(search_history) :
        /\ rerun' = [search_pressed |-> FALSE, query |-> query,
                     returned |-> FALSE, viewed |-> i]
        /\ search_history' =
             history_after(search_history, FALSE, query, FALSE,
                           history_entry(dashboard, query, reruns + 1, "web"))
    /\ reruns' = reruns + 1
    /\ pc' = "rerun"
    /\ UNCHANGED <<dashboard, batch_vars, session_vars>>

\* a rerun caused by any other widget (the query box, the sidebar)
RerunOtherWidget ==
    /\ reruns < MaxReruns
    /\ \E query \in DashboardQueries :
        /\ rerun' = [search_pressed |-> FALSE, query |-> query,
                     returned |-> FALSE, viewed |-> 0]
        /\ search_history' =
             history_after(search_history, FALSE, query, FALSE,
                           history_entry(dashboard, query, reruns + 1, "web"))
    /\ reruns' = reruns + 1
    /\ pc' = "rerun"
    /\ UNCHANGED <<dashboard, batch_vars, session_vars>>

NextDashboard ==
    \/ RerunSearchPressed
    \/ RerunViewResults
    \/ RerunOtherWidget

SpecDashboard == InitDashboard /\ [][NextDashboard]_vars

IsPrefix(s, t) == Len(s) <= Len(t) /\ SubSeq(t, 1, Len(s)) = s

\* C30: the dashboard's session search_history is append-only across any
\* sequence of reruns: a rerun either leaves it unchanged or appends exactly
\* one entry at the end, existing entries are never removed, reordered or
\* modified, and an entry is appended only when the search button was
\* pressed with a non-empty query and the API call returned a response (a
\* failed search appends nothing, viewing a history entry appends nothing).
C30_SearchHistoryAppendOnly ==
    [][reruns' = reruns + 1 =>
        /\ IsPrefix(search_history, search_history')
        /\ Len(search_history') <= Len(search_history) + 1
        /\ search_history' # search_history
           => (rerun'.search_pressed /\ rerun'.query # "" /\ rerun'.returned)
        /\ (rerun'.search_pressed /\ ~rerun'.returned)
           => search_history' = search_history
        /\ rerun'.viewed > 0 => search_history' = search_history]_vars

C30_Witness ==
    /\ dashboard = "streamlit_search"
    /\ reruns = 3
    /\ Len(search_history) = 1
    /\ search_history[1].timestamp = 1
    /\ rerun.search_pressed
    /\ rerun.query = "capital of France"
    /\ ~rerun.returned

=============================================================================
